---- MODULE Spec2Model ----
(***************************************************************************)
(* A model of pdfua3_ocr_compressed.py: the batch driver                   *)
(* process_all_pdfs, the assembler create_ocr_compressed_pdf and the       *)
(* post-processing step add_xmp_metadata_and_markinfo.                     *)
(*                                                                         *)
(* File names and OCR words are sequences of one-character strings, so     *)
(* that lower(), endswith(), splitext(), replace(), title() and strip()    *)
(* are computed as Python computes them.  Paths are sequences of           *)
(* directory names plus a file name.  Coordinates are exact rationals      *)
(* <<numerator, denominator>> in lowest terms.  The external libraries     *)
(* (PyMuPDF, Pillow, Tesseract, pikepdf, the file system) answer           *)
(* nondeterministically from the sets held in env.                         *)
(***************************************************************************)
EXTENDS Integers, Sequences, FiniteSets, TLC

VARIABLES
    env,        \* what the outside world may answer: inputs and library capability
    walk,       \* the (root, filename) pairs os.walk yields, in order
    idx,        \* position of process_all_pdfs in walk
    pc,         \* the statement about to run
    drv,        \* locals of process_all_pdfs for the current file
    cc,         \* frame of create_ocr_compressed_pdf
    ax,         \* frame of add_xmp_metadata_and_markinfo
    exc,        \* the exception in flight or last caught
    fs,         \* files written under OUTPUT_FOLDER: path -> content
    dirs,       \* directories created under OUTPUT_FOLDER
    handles,    \* document handles opened and not closed
    log,        \* the lines printed
    uuids,      \* how many uuid4() values have been drawn
    caller,     \* who called add_xmp_metadata_and_markinfo
    reruns      \* calls of add_xmp_metadata_and_markinfo made after the batch

vars == <<env, walk, idx, pc, drv, cc, ax, exc, fs, dirs, handles, log, uuids,
          caller, reruns>>

-----------------------------------------------------------------------------
(* Bounds of the model *)

MaxFiles == 2
MaxPages == 2
MaxTokens == 2
MaxReruns == 2

-----------------------------------------------------------------------------
(* Program constants *)

INPUT_FOLDER == "input_pdfs"
OUTPUT_FOLDER == "output_pdfs"
DPI == 150
JPEG_QUALITY == 80
ConfidenceThreshold == 50
FontSize == 8

-----------------------------------------------------------------------------
(* Python string methods, on sequences of one-character strings *)

LowerLetters == <<"a", "b", "d", "f", "p", "t", "x">>
UpperLetters == <<"A", "B", "D", "F", "P", "T", "X">>

IsLower(c) == \E i \in 1..Len(LowerLetters) : LowerLetters[i] = c
IsUpper(c) == \E i \in 1..Len(UpperLetters) : UpperLetters[i] = c
IsCased(c) == IsLower(c) \/ IsUpper(c)

CharLower(c) ==
    IF IsUpper(c)
    THEN LowerLetters[CHOOSE i \in 1..Len(UpperLetters) : UpperLetters[i] = c]
    ELSE c

CharUpper(c) ==
    IF IsLower(c)
    THEN UpperLetters[CHOOSE i \in 1..Len(LowerLetters) : LowerLetters[i] = c]
    ELSE c

\* str.lower()
StrLower(s) == [i \in 1..Len(s) |-> CharLower(s[i])]

\* str.endswith(suffix)
EndsWith(s, suffix) ==
    /\ Len(s) >= Len(suffix)
    /\ SubSeq(s, Len(s) - Len(suffix) + 1, Len(s)) = suffix

\* str.replace(old, new) for single characters
StrReplace(s, old, new) == [i \in 1..Len(s) |-> IF s[i] = old THEN new ELSE s[i]]

\* str.title(): a cased character is upper-cased when it starts a word (it
\* follows no cased character) and lower-cased otherwise
StrTitle(s) ==
    [i \in 1..Len(s) |->
        IF i > 1 /\ IsCased(s[i - 1]) THEN CharLower(s[i]) ELSE CharUpper(s[i])]

IsSpace(c) == c = " "

\* str.strip(): leading and trailing whitespace removed
RECURSIVE LStrip(_)
LStrip(s) == IF s # <<>> /\ IsSpace(Head(s)) THEN LStrip(Tail(s)) ELSE s

RECURSIVE RStrip(_)
RStrip(s) ==
    IF s # <<>> /\ IsSpace(s[Len(s)]) THEN RStrip(SubSeq(s, 1, Len(s) - 1)) ELSE s

Strip(s) == RStrip(LStrip(s))

\* os.path.splitext(name)[0]: the name up to its last dot, leading dots kept
LeadingDots(s) ==
    IF \E i \in 1..Len(s) : s[i] # "."
    THEN (CHOOSE i \in 1..Len(s) :
            s[i] # "." /\ \A j \in 1..(i - 1) : s[j] = ".") - 1
    ELSE Len(s)

SplitextRoot(s) ==
    LET dots == {i \in (LeadingDots(s) + 1)..Len(s) : s[i] = "."}
    IN  IF dots = {} THEN s
        ELSE SubSeq(s, 1, (CHOOSE i \in dots : \A j \in dots : j <= i) - 1)

Ext_pdf == <<".", "p", "d", "f">>

-----------------------------------------------------------------------------
(* os.path on paths [dir |-> sequence of directory names, name |-> file name] *)

\* os.path.join(root, filename)
PathJoin(dir, name) == [dir |-> dir, name |-> name]

\* os.path.relpath(root, start), root being start or below it
Relpath(root, start) == SubSeq(root, Len(start) + 1, Len(root))

\* os.path.basename(path)
Basename(path) == path.name

-----------------------------------------------------------------------------
(* Exact rational arithmetic for the coordinate mapping *)

RECURSIVE GCD(_, _)
GCD(a, b) == IF b = 0 THEN a ELSE GCD(b, a % b)

\* n / d in lowest terms, d > 0, n >= 0
Rat(n, d) == LET g == GCD(n, d) IN <<n \div g, d \div g>>

\* k * r for an integer k and a rational r
RatTimes(k, r) == Rat(k * r[1], r[2])

RatOfInt(k) == <<k, 1>>

-----------------------------------------------------------------------------
(* The inputs: what os.walk finds and what the libraries may answer *)

Name_a_b_pdf == <<"a", "_", "b", ".", "p", "d", "f">>
Name_B_PDF == <<"B", ".", "P", "D", "F">>
Name_x_txt == <<"x", ".", "t", "x", "t">>

InputRoot == <<INPUT_FOLDER>>
SubRoot == <<INPUT_FOLDER, "sub">>
Sub2Root == <<INPUT_FOLDER, "sub2">>

\* the (root, filename) pairs of the input tree
Catalogue ==
    { [root |-> InputRoot, filename |-> Name_a_b_pdf],
      [root |-> InputRoot, filename |-> Name_x_txt],
      [root |-> SubRoot, filename |-> Name_a_b_pdf],
      [root |-> Sub2Root, filename |-> Name_B_PDF] }

\* os.walk is top-down: the files of a directory come before those of its
\* subdirectories, each file once, the order within a directory arbitrary
WalkOrders(n) ==
    { w \in [1..n -> Catalogue] :
        /\ \A i, j \in 1..n : i # j => w[i] # w[j]
        /\ \A i, j \in 1..n : i < j => Len(w[i].root) <= Len(w[j].root) }

PageSizes == { [width |-> 72, height |-> 144], [width |-> 100, height |-> 50] }

SeqsUpTo(S, n) == UNION { [1..k -> S] : k \in 0..n }

\* The three families of inputs.  "page": one file of at most one page, OCR
\* results of up to MaxTokens tokens.  "doc": one file of up to MaxPages
\* pages.  "batch": up to MaxFiles files.
PageEnv ==
    [ family |-> "page",
      hasViewerPrefs |-> TRUE,
      pageSeqs |-> SeqsUpTo(PageSizes, 1),
      modes |-> {"RGB"},
      texts |-> {<<>>, <<" ">>, <<" ", "a">>},
      confs |-> {ConfidenceThreshold - 1, ConfidenceThreshold, ConfidenceThreshold + 1},
      boxes |-> {"full", "word"},
      maxTokens |-> MaxTokens ]

DocEnvs ==
    { [ family |-> "doc",
        hasViewerPrefs |-> v,
        pageSeqs |-> SeqsUpTo(PageSizes, MaxPages),
        modes |-> {"RGB", "RGBA", "P", "LA"},
        texts |-> {<<"a">>},
        confs |-> {ConfidenceThreshold + 1},
        boxes |-> {"word"},
        maxTokens |-> 1 ] : v \in BOOLEAN }

BatchPageCounts == {0, 1, 3}

BatchEnv ==
    [ family |-> "batch",
      hasViewerPrefs |-> TRUE,
      pageSeqs |-> { [i \in 1..k |-> [width |-> 72, height |-> 144]] : k \in BatchPageCounts },
      modes |-> {"RGB"},
      texts |-> {<<"a">>},
      confs |-> {ConfidenceThreshold + 1},
      boxes |-> {"full"},
      maxTokens |-> 0 ]

-----------------------------------------------------------------------------
(* Frames and documents *)

NoMetadata == [title |-> <<>>, author |-> "", subject |-> "", keywords |-> <<>>]

\* fitz.open(): a new, empty document
EmptyDoc ==
    [ metadata |-> NoMetadata, language |-> "", viewer_preferences |-> {},
      pages |-> <<>> ]

NoPix == [page |-> 0, width |-> 1, height |-> 1]

NoFrame ==
    [ input_path |-> PathJoin(<<>>, <<>>), output_path |-> PathJoin(<<>>, <<>>),
      source_doc |-> <<>>, output_doc |-> EmptyDoc,
      doc_title |-> <<>>, author |-> "", subject |-> "", keywords |-> <<>>,
      page_num |-> -1, pix |-> NoPix, pil_image |-> "", ocr_data |-> <<>>,
      compressed_image_bytes |-> [of |-> 0, mode |-> "", quality |-> 0] ]

NoDriver ==
    [ filename |-> <<>>, input_path |-> PathJoin(<<>>, <<>>), output_dir |-> <<>>,
      output_path |-> PathJoin(<<>>, <<>>), meta |-> NoMetadata ]

NoPdf == [info |-> NoMetadata, pages |-> <<>>, root |-> <<>>, encrypted |-> FALSE]

NoInject ==
    [ pdf_path |-> PathJoin(<<>>, <<>>), meta |-> NoMetadata, pdf |-> NoPdf,
      instance_id |-> 0, xmp_metadata |-> <<>>, metadata_stream |-> <<>> ]

NoExc == [at |-> ""]

Printed(line) == log' = Append(log, line)

-----------------------------------------------------------------------------
(* Initial states *)

Init ==
    /\ \/ /\ env = PageEnv
          /\ walk = <<[root |-> InputRoot, filename |-> Name_a_b_pdf]>>
       \/ /\ env \in DocEnvs
          /\ walk = <<[root |-> InputRoot, filename |-> Name_a_b_pdf]>>
       \/ /\ env = BatchEnv
          /\ walk \in UNION { WalkOrders(n) : n \in 0..MaxFiles }
    /\ idx = 1
    /\ pc = "walk"
    /\ drv = NoDriver
    /\ cc = NoFrame
    /\ ax = NoInject
    /\ exc = NoExc
    /\ fs = <<>>
    /\ dirs = {<<OUTPUT_FOLDER>>}
    /\ handles = {}
    /\ log = <<>>
    /\ uuids = 0
    /\ caller = "process_all_pdfs"
    /\ reruns = 0

-----------------------------------------------------------------------------
(* process_all_pdfs *)

Entry == walk[idx]

\* filename.lower().endswith(".pdf")
IsPdfName(filename) == EndsWith(StrLower(filename), Ext_pdf)

\* every output placed directly in OUTPUT_FOLDER
OutputDirFlat(root) == <<OUTPUT_FOLDER>>

\* os.path.join(OUTPUT_FOLDER, os.path.relpath(root, INPUT_FOLDER))
OutputDirOf(root) == <<OUTPUT_FOLDER>> \o Relpath(root, InputRoot)

\* os.path.join(output_dir, filename)
OutputPathOf(root, filename) == PathJoin(OutputDirOf(root), filename)

\* the for loops take the next file, a PDF by its name
WalkNext ==
    /\ pc = "walk"
    /\ idx <= Len(walk)
    /\ IsPdfName(Entry.filename)
    /\ drv' = [ NoDriver EXCEPT
                  !.filename = Entry.filename,
                  !.input_path = PathJoin(Entry.root, Entry.filename),
                  !.output_dir = OutputDirOf(Entry.root) ]
    /\ pc' = "makedirs"
    /\ UNCHANGED <<env, walk, idx, cc, ax, exc, fs, dirs, handles, log, uuids,
                   caller, reruns>>

\* a file whose name does not end in .pdf is passed over
WalkSkip ==
    /\ pc = "walk"
    /\ idx <= Len(walk)
    /\ ~IsPdfName(Entry.filename)
    /\ idx' = idx + 1
    /\ UNCHANGED <<env, walk, pc, drv, cc, ax, exc, fs, dirs, handles, log, uuids,
                   caller, reruns>>

\* os.walk is exhausted: process_all_pdfs returns
WalkEnd ==
    /\ pc = "walk"
    /\ idx > Len(walk)
    /\ pc' = "done"
    /\ drv' = NoDriver
    /\ UNCHANGED <<env, walk, idx, cc, ax, exc, fs, dirs, handles, log, uuids,
                   caller, reruns>>

\* os.makedirs(output_dir, exist_ok=True), the output path, the first print
\* and the call of create_ocr_compressed_pdf inside the try
MakeDirs ==
    /\ pc = "makedirs"
    /\ dirs' = dirs \cup {drv.output_dir}
    /\ drv' = [drv EXCEPT !.output_path = PathJoin(drv.output_dir, drv.filename)]
    /\ Printed([line |-> "start", file |-> idx])
    /\ cc' = [ NoFrame EXCEPT
                 !.input_path = drv.input_path,
                 !.output_path = PathJoin(drv.output_dir, drv.filename) ]
    /\ pc' = "cc_open_source"
    /\ UNCHANGED <<env, walk, idx, ax, exc, fs, handles, uuids, caller, reruns>>

\* os.makedirs raises (the directory cannot be created): the call stands
\* outside the try, so the exception leaves process_all_pdfs
MakeDirsRaises ==
    /\ pc = "makedirs"
    /\ drv.output_dir \notin dirs
    /\ exc' = [at |-> "makedirs"]
    /\ pc' = "crashed"
    /\ UNCHANGED <<env, walk, idx, drv, cc, ax, fs, dirs, handles, log, uuids,
                   caller, reruns>>

\* print("Successfully processed ..."), then the next file
PrintSuccess ==
    /\ pc = "success"
    /\ Printed([line |-> "success", file |-> idx])
    /\ idx' = idx + 1
    /\ drv' = NoDriver
    /\ pc' = "walk"
    /\ UNCHANGED <<env, walk, cc, ax, exc, fs, dirs, handles, uuids, caller, reruns>>

\* the handler reporting the file as processed
HandleExceptionPrintingSuccess ==
    /\ pc = "except"
    /\ Printed([line |-> "success", file |-> idx])
    /\ idx' = idx + 1
    /\ drv' = NoDriver
    /\ pc' = "walk"
    /\ UNCHANGED <<env, walk, cc, ax, exc, fs, dirs, handles, uuids, caller, reruns>>

\* except Exception as e: print("Error processing ..."), then the next file
HandleException ==
    /\ pc = "except"
    /\ Printed([line |-> "error", file |-> idx, reason |-> exc.at])
    /\ idx' = idx + 1
    /\ drv' = NoDriver
    /\ pc' = "walk"
    /\ UNCHANGED <<env, walk, cc, ax, exc, fs, dirs, handles, uuids, caller, reruns>>

-----------------------------------------------------------------------------
(* create_ocr_compressed_pdf *)

Author == "University of Arizona Libraries"
Subject == "Lymphology Journal Article"
\* 'OCR, accessibility, PDF/UA, Lymphology', its commas as elements of their own
Keywords == <<"OCR", ",", " accessibility", ",", " PDF/UA", ",", " Lymphology">>

\* os.path.splitext(os.path.basename(input_path))[0].replace('_', ' ').title()
DocTitle(input_path) == StrTitle(StrReplace(SplitextRoot(Basename(input_path)), "_", " "))

SourceHandle == [doc |-> "source_doc", file |-> idx]
OutputHandle == [doc |-> "output_doc", file |-> idx]
PdfHandle == [doc |-> "pdf", file |-> idx]

\* source_page of the running iteration (page_num counts from 0)
SourcePage == cc.source_doc[cc.page_num + 1]

\* source_page.rect
PageRect(page) == <<RatOfInt(0), RatOfInt(0), RatOfInt(page.width), RatOfInt(page.height)>>

\* the pixel extent of a length in points rendered at dpi: PDF points are
\* 1/72 inch, and the renderer rounds the extent down or up
PixelSizes(points, dpi) == {(points * dpi) \div 72, (points * dpi + 71) \div 72}

\* the box of an OCR token in pixels: <<left, top, width, height>>
BoxOf(kind, pix) ==
    IF kind = "full" THEN <<0, 0, pix.width, pix.height>> ELSE <<10, 20, 30, 15>>

Tokens(pix) ==
    { [text |-> t, conf |-> c, left |-> BoxOf(b, pix)[1], top |-> BoxOf(b, pix)[2],
       width |-> BoxOf(b, pix)[3], height |-> BoxOf(b, pix)[4]] :
        t \in env.texts, c \in env.confs, b \in env.boxes }

\* what pytesseract.image_to_data may return for a raster
OcrResults(pix) == SeqsUpTo(Tokens(pix), env.maxTokens)

\* source_doc = fitz.open(input_path)
OpenSource ==
    /\ pc = "cc_open_source"
    /\ \E pages \in env.pageSeqs : cc' = [cc EXCEPT !.source_doc = pages]
    /\ handles' = handles \cup {SourceHandle}
    /\ pc' = "cc_new_output"
    /\ UNCHANGED <<env, walk, idx, drv, ax, exc, fs, dirs, log, uuids, caller, reruns>>

\* output_doc = fitz.open()
NewOutputDoc ==
    /\ pc = "cc_new_output"
    /\ cc' = [cc EXCEPT !.output_doc = EmptyDoc]
    /\ handles' = handles \cup {OutputHandle}
    /\ pc' = "cc_set_metadata"
    /\ UNCHANGED <<env, walk, idx, drv, ax, exc, fs, dirs, log, uuids, caller, reruns>>

\* doc_title, author, subject, keywords and output_doc.set_metadata({...})
SetMetadata ==
    /\ pc = "cc_set_metadata"
    /\ LET t == DocTitle(cc.input_path)
       IN  cc' = [ cc EXCEPT
                     !.doc_title = t, !.author = Author, !.subject = Subject,
                     !.keywords = Keywords,
                     !.output_doc.metadata =
                         [title |-> t, author |-> Author, subject |-> Subject,
                          keywords |-> Keywords] ]
    /\ pc' = "cc_set_language"
    /\ UNCHANGED <<env, walk, idx, drv, ax, exc, fs, dirs, handles, log, uuids,
                   caller, reruns>>

\* the language left unset
SetLanguageSkipped ==
    /\ pc = "cc_set_language"
    /\ pc' = "cc_viewer_prefs"
    /\ UNCHANGED <<env, walk, idx, drv, cc, ax, exc, fs, dirs, handles, log, uuids,
                   caller, reruns>>

\* output_doc.set_language("en-US")
SetLanguage ==
    /\ pc = "cc_set_language"
    /\ cc' = [cc EXCEPT !.output_doc.language = "en-US"]
    /\ pc' = "cc_viewer_prefs"
    /\ UNCHANGED <<env, walk, idx, drv, ax, exc, fs, dirs, handles, log, uuids,
                   caller, reruns>>

\* output_doc.set_viewer_preferences({'DisplayDocTitle': True})
SetViewerPreferences ==
    /\ pc = "cc_viewer_prefs"
    /\ env.hasViewerPrefs
    /\ cc' = [cc EXCEPT !.output_doc.viewer_preferences = {"DisplayDocTitle"}]
    /\ pc' = "cc_next_page"
    /\ UNCHANGED <<env, walk, idx, drv, ax, exc, fs, dirs, handles, log, uuids,
                   caller, reruns>>

\* the missing method ends create_ocr_compressed_pdf with its AttributeError
ViewerPreferencesMissingRaises ==
    /\ pc = "cc_viewer_prefs"
    /\ ~env.hasViewerPrefs
    /\ exc' = [at |-> pc]
    /\ cc' = NoFrame
    /\ pc' = "except"
    /\ UNCHANGED <<env, walk, idx, drv, ax, fs, dirs, handles, log, uuids, caller,
                   reruns>>

\* except AttributeError: the method is missing in this PyMuPDF version
ViewerPreferencesMissing ==
    /\ pc = "cc_viewer_prefs"
    /\ ~env.hasViewerPrefs
    /\ Printed([line |-> "viewer_prefs_info", file |-> idx])
    /\ pc' = "cc_next_page"
    /\ UNCHANGED <<env, walk, idx, drv, cc, ax, exc, fs, dirs, handles, uuids,
                   caller, reruns>>

\* for page_num, source_page in enumerate(source_doc): the next page, and
\* the progress line
NextPage ==
    /\ pc = "cc_next_page"
    /\ cc.page_num + 1 < Len(cc.source_doc)
    /\ cc' = [cc EXCEPT !.page_num = @ + 1]
    /\ Printed([line |-> "page", file |-> idx, n |-> cc.page_num + 2,
                of |-> Len(cc.source_doc)])
    /\ pc' = "cc_get_pixmap"
    /\ UNCHANGED <<env, walk, idx, drv, ax, exc, fs, dirs, handles, uuids, caller,
                   reruns>>

\* the loop over the pages left one page early
PagesDoneOnePageEarly ==
    /\ pc = "cc_next_page"
    /\ cc.page_num + 2 >= Len(cc.source_doc)
    /\ pc' = "cc_save"
    /\ UNCHANGED <<env, walk, idx, drv, cc, ax, exc, fs, dirs, handles, log, uuids,
                   caller, reruns>>

\* the loop over the pages ends
PagesDone ==
    /\ pc = "cc_next_page"
    /\ cc.page_num + 1 >= Len(cc.source_doc)
    /\ pc' = "cc_save"
    /\ UNCHANGED <<env, walk, idx, drv, cc, ax, exc, fs, dirs, handles, log, uuids,
                   caller, reruns>>

\* the output page created right after the rendering, before OCR
GetPixmapThenNewPage ==
    /\ pc = "cc_get_pixmap"
    /\ \E w \in PixelSizes(SourcePage.width, DPI), h \in PixelSizes(SourcePage.height, DPI),
          mode \in env.modes :
          cc' = [ cc EXCEPT
                    !.pix = [page |-> cc.page_num, width |-> w, height |-> h],
                    !.pil_image = mode,
                    !.output_doc.pages =
                        Append(@, [width |-> SourcePage.width,
                                   height |-> SourcePage.height,
                                   images |-> <<>>, texts |-> <<>>]) ]
    /\ pc' = "cc_ocr"
    /\ UNCHANGED <<env, walk, idx, drv, ax, exc, fs, dirs, handles, log, uuids,
                   caller, reruns>>

\* pix = source_page.get_pixmap(dpi=DPI); pil_image = Image.open(PNG bytes)
GetPixmap ==
    /\ pc = "cc_get_pixmap"
    /\ \E w \in PixelSizes(SourcePage.width, DPI), h \in PixelSizes(SourcePage.height, DPI),
          mode \in env.modes :
          cc' = [ cc EXCEPT
                    !.pix = [page |-> cc.page_num, width |-> w, height |-> h],
                    !.pil_image = mode ]
    /\ pc' = "cc_ocr"
    /\ UNCHANGED <<env, walk, idx, drv, ax, exc, fs, dirs, handles, log, uuids,
                   caller, reruns>>

\* ocr_data = pytesseract.image_to_data(pil_image, ...)
Ocr ==
    /\ pc = "cc_ocr"
    /\ \E data \in OcrResults(cc.pix) : cc' = [cc EXCEPT !.ocr_data = data]
    /\ pc' = "cc_new_page"
    /\ UNCHANGED <<env, walk, idx, drv, ax, exc, fs, dirs, handles, log, uuids,
                   caller, reruns>>

\* the new page put in front of the document instead of at its end
NewPageAtFront(doc, width, height) ==
    [ doc EXCEPT
        !.pages = <<[width |-> width, height |-> height,
                     images |-> <<>>, texts |-> <<>>]>> \o @ ]

\* doc.new_page(width=..., height=...): a blank page appended to the document
NewPage(doc, width, height) ==
    [ doc EXCEPT
        !.pages = Append(@, [width |-> width, height |-> height,
                             images |-> <<>>, texts |-> <<>>]) ]

\* output_page = output_doc.new_page(width=source_page.rect.width, height=...)
CreateOutputPage ==
    /\ pc = "cc_new_page"
    /\ cc' = [cc EXCEPT !.output_doc = NewPage(@, SourcePage.width, SourcePage.height)]
    /\ pc' = "cc_compress"
    /\ UNCHANGED <<env, walk, idx, drv, ax, exc, fs, dirs, handles, log, uuids,
                   caller, reruns>>

\* output_page: the page new_page returned, the last of the document
OutputPageNo == Len(cc.output_doc.pages)

\* if pil_image.mode in ("RGBA", "P"): pil_image = pil_image.convert("RGB")
ConvertMode(mode) == IF mode \in {"RGBA", "P"} THEN "RGB" ELSE mode

\* the modes Pillow's JPEG encoder writes; any other raises OSError
JpegWritable(mode) == mode \in {"1", "L", "RGB", "RGBX", "CMYK", "YCbCr"}

\* the mode conversion and pil_image.save(buffer, format="JPEG", quality=...)
Compress ==
    /\ pc = "cc_compress"
    /\ JpegWritable(ConvertMode(cc.pil_image))
    /\ cc' = [ cc EXCEPT
                 !.pil_image = ConvertMode(@),
                 !.compressed_image_bytes =
                     [of |-> cc.pix.page, mode |-> ConvertMode(cc.pil_image),
                      quality |-> JPEG_QUALITY] ]
    /\ pc' = "cc_insert_image"
    /\ UNCHANGED <<env, walk, idx, drv, ax, exc, fs, dirs, handles, log, uuids,
                   caller, reruns>>

\* output_page.insert_image(source_page.rect, stream=compressed_image_bytes)
InsertImage ==
    /\ pc = "cc_insert_image"
    /\ cc' = [ cc EXCEPT
                 !.output_doc.pages[OutputPageNo].images =
                     Append(@, [rect |-> PageRect(SourcePage),
                                stream |-> cc.compressed_image_bytes]) ]
    /\ pc' = "cc_insert_text"
    /\ UNCHANGED <<env, walk, idx, drv, ax, exc, fs, dirs, handles, log, uuids,
                   caller, reruns>>

\* the scale taken from the rendering resolution instead of the raster
ScaleFromDpi(points, pixels) == Rat(72, DPI)

\* scale_x = source_page.rect.width / pix.width (and scale_y likewise)
Scale(points, pixels) == Rat(points, pixels)

\* the filter with the threshold itself let through
AcceptedFromThreshold(token) ==
    Strip(token.text) # <<>> /\ token.conf >= ConfidenceThreshold

\* if word.strip() and conf > 50
Accepted(token) == Strip(token.text) # <<>> /\ token.conf > ConfidenceThreshold

\* fitz.Rect(left * scale_x, top * scale_y, (left + w) * scale_x, (top + h) * scale_y)
WordRect(token, scale_x, scale_y) ==
    << RatTimes(token.left, scale_x), RatTimes(token.top, scale_y),
       RatTimes(token.left + token.width, scale_x),
       RatTimes(token.top + token.height, scale_y) >>

\* the loop over ocr_data: every accepted word is inserted, in order, as an
\* invisible text box
RECURSIVE InsertTextboxes(_, _, _, _)
InsertTextboxes(texts, data, scale_x, scale_y) ==
    IF data = <<>> THEN texts
    ELSE InsertTextboxes(
             IF Accepted(Head(data))
             THEN Append(texts, [rect |-> WordRect(Head(data), scale_x, scale_y),
                                 text |-> Head(data).text, fontsize |-> FontSize,
                                 fill_opacity |-> 0])
             ELSE texts,
             Tail(data), scale_x, scale_y)

\* the scale factors and the text layer of the page
InsertText ==
    /\ pc = "cc_insert_text"
    /\ LET scale_x == Scale(SourcePage.width, cc.pix.width)
           scale_y == Scale(SourcePage.height, cc.pix.height)
       IN  cc' = [ cc EXCEPT
                     !.output_doc.pages[OutputPageNo].texts =
                         InsertTextboxes(@, cc.ocr_data, scale_x, scale_y) ]
    /\ pc' = "cc_next_page"
    /\ UNCHANGED <<env, walk, idx, drv, ax, exc, fs, dirs, handles, log, uuids,
                   caller, reruns>>

\* the document catalog (root) of a saved PyMuPDF document
CatalogOf(doc) ==
    <<<<"/Type", "/Catalog">>, <<"/Pages", "pages">>>>
    \o (IF doc.language # "" THEN <<<<"/Lang", doc.language>>>> ELSE <<>>)
    \o (IF doc.viewer_preferences # {}
        THEN <<<<"/ViewerPreferences", doc.viewer_preferences>>>> ELSE <<>>)

\* the file output_doc.save(..., encryption=fitz.PDF_ENCRYPT_NONE) writes
Serialize(doc) ==
    [ info |-> doc.metadata, pages |-> doc.pages, root |-> CatalogOf(doc),
      encrypted |-> FALSE ]

\* fs with the file at path written (created or replaced)
WriteFile(files, path, content) ==
    [p \in DOMAIN files \cup {path} |-> IF p = path THEN content ELSE files[p]]

\* output_doc.save(output_path, garbage=4, deflate=True, ...)
SaveOutput ==
    /\ pc = "cc_save"
    /\ fs' = WriteFile(fs, cc.output_path, Serialize(cc.output_doc))
    /\ pc' = "cc_close_output"
    /\ UNCHANGED <<env, walk, idx, drv, cc, ax, exc, dirs, handles, log, uuids,
                   caller, reruns>>

\* output_doc.close()
CloseOutput ==
    /\ pc = "cc_close_output"
    /\ handles' = handles \ {OutputHandle}
    /\ pc' = "cc_close_source"
    /\ UNCHANGED <<env, walk, idx, drv, cc, ax, exc, fs, dirs, log, uuids, caller,
                   reruns>>

\* source_doc.close()
CloseSource ==
    /\ pc = "cc_close_source"
    /\ handles' = handles \ {SourceHandle}
    /\ pc' = "cc_return"
    /\ UNCHANGED <<env, walk, idx, drv, cc, ax, exc, fs, dirs, log, uuids, caller,
                   reruns>>

\* the file name without its extension returned in place of doc_title
ReturnMetadataUntitled ==
    /\ pc = "cc_return"
    /\ LET m == [title |-> SplitextRoot(Basename(cc.input_path)), author |-> cc.author,
                 subject |-> cc.subject, keywords |-> cc.keywords]
       IN  /\ drv' = [drv EXCEPT !.meta = m]
           /\ ax' = [NoInject EXCEPT !.pdf_path = drv.output_path, !.meta = m]
    /\ cc' = NoFrame
    /\ caller' = "process_all_pdfs"
    /\ pc' = "ax_open"
    /\ UNCHANGED <<env, walk, idx, exc, fs, dirs, handles, log, uuids, reruns>>

\* return doc_title, author, subject, keywords; the caller unpacks the tuple
\* and calls add_xmp_metadata_and_markinfo(output_path, ...)
ReturnMetadata ==
    /\ pc = "cc_return"
    /\ LET m == [title |-> cc.doc_title, author |-> cc.author,
                 subject |-> cc.subject, keywords |-> cc.keywords]
       IN  /\ drv' = [drv EXCEPT !.meta = m]
           /\ ax' = [NoInject EXCEPT !.pdf_path = drv.output_path, !.meta = m]
    /\ cc' = NoFrame
    /\ caller' = "process_all_pdfs"
    /\ pc' = "ax_open"
    /\ UNCHANGED <<env, walk, idx, exc, fs, dirs, handles, log, uuids, reruns>>

\* the statements of create_ocr_compressed_pdf whose library call may raise:
\* fitz.open(input_path), get_pixmap/tobytes/Image.open, image_to_data, save
CreateRaisePoints == {"cc_open_source", "cc_get_pixmap", "cc_ocr", "cc_save"}

\* a library call raises and the pages built so far are saved on the way out
CreateRaisesSavingPages ==
    /\ pc \in CreateRaisePoints
    /\ exc' = [at |-> pc]
    /\ fs' = IF pc = "cc_open_source" THEN fs
             ELSE WriteFile(fs, cc.output_path, Serialize(cc.output_doc))
    /\ cc' = NoFrame
    /\ pc' = "except"
    /\ UNCHANGED <<env, walk, idx, drv, ax, dirs, handles, log, uuids, caller,
                   reruns>>

\* a library call raises and the injector is called all the same
CreateRaisesThenInjects ==
    /\ pc \in CreateRaisePoints
    /\ exc' = [at |-> pc]
    /\ cc' = NoFrame
    /\ ax' = [NoInject EXCEPT !.pdf_path = drv.output_path]
    /\ pc' = "ax_open"
    /\ UNCHANGED <<env, walk, idx, drv, fs, dirs, handles, log, uuids, caller,
                   reruns>>

\* a library call raises: nothing in create_ocr_compressed_pdf catches it, the
\* frame is left without reaching the close() calls, and the try of
\* process_all_pdfs takes it
CreateRaises ==
    /\ pc \in CreateRaisePoints
    /\ exc' = [at |-> pc]
    /\ cc' = NoFrame
    /\ pc' = "except"
    /\ UNCHANGED <<env, walk, idx, drv, ax, fs, dirs, handles, log, uuids, caller,
                   reruns>>

\* pil_image.save raises OSError: the mode cannot be written as JPEG
CompressRaises ==
    /\ pc = "cc_compress"
    /\ ~JpegWritable(ConvertMode(cc.pil_image))
    /\ exc' = [at |-> pc]
    /\ cc' = NoFrame
    /\ pc' = "except"
    /\ UNCHANGED <<env, walk, idx, drv, ax, fs, dirs, handles, log, uuids, caller,
                   reruns>>

-----------------------------------------------------------------------------
(* add_xmp_metadata_and_markinfo *)

\* an assignment that adds an entry even when the key is there
DictSetAppending(d, key, value) == Append(d, <<key, value>>)

\* d[key] = value on a dictionary held as a sequence of <<key, value>> pairs:
\* the value of an existing key is replaced, a new key is added
DictSet(d, key, value) ==
    IF \E i \in 1..Len(d) : d[i][1] = key
    THEN [i \in 1..Len(d) |-> IF d[i][1] = key THEN <<key, value>> ELSE d[i]]
    ELSE Append(d, <<key, value>>)

DictKeys(d) == {d[i][1] : i \in 1..Len(d)}

DictGet(d, key) == d[CHOOSE i \in 1..Len(d) : d[i][1] = key][2]

\* how many entries of d have the key
DictCount(d, key) == Cardinality({i \in 1..Len(d) : d[i][1] = key})

\* pdf = pikepdf.Pdf.open(pdf_path, allow_overwriting_input=True)
PikeOpen ==
    /\ pc = "ax_open"
    /\ ax.pdf_path \in DOMAIN fs
    /\ ax' = [ax EXCEPT !.pdf = fs[ax.pdf_path]]
    /\ handles' = handles \cup {PdfHandle}
    /\ pc' = "ax_markinfo"
    /\ UNCHANGED <<env, walk, idx, drv, cc, exc, fs, dirs, log, uuids, caller, reruns>>

\* pdf.trailer["/Root"]["/MarkInfo"] = pikepdf.Dictionary(Marked=True)
SetMarkInfo ==
    /\ pc = "ax_markinfo"
    /\ ax' = [ax EXCEPT !.pdf.root = DictSet(@, "/MarkInfo", [Marked |-> TRUE])]
    /\ pc' = "ax_xmp"
    /\ UNCHANGED <<env, walk, idx, drv, cc, exc, fs, dirs, handles, log, uuids,
                   caller, reruns>>

\* the same identifier written into every packet
XmpIdsFixed(drawn) == <<1, 1, 1>>

\* two uuid4() values drawn, one for each identifier
XmpIdsTwoDrawn(drawn) == <<drawn + 1, drawn + 2, 2>>

\* the identifiers written into the packet, from the uuid4() values drawn so
\* far: <<xmpMM:DocumentID, xmpMM:InstanceID, number of values drawn now>>.
\* uuid.uuid4() is called once and instance_id fills both elements.
XmpIds(drawn) == <<drawn + 1, drawn + 1, 1>>

\* the f-string: the XMP packet
XmpPacket(meta, ids) ==
    [ title |-> meta.title, creator |-> meta.author, description |-> meta.subject,
      subject |-> StrReplace(meta.keywords, ",", "</rdf:li><rdf:li>"),
      producer |-> "pikepdf", keywords |-> meta.keywords,
      creatorTool |-> "UA Libraries OCR and Accessibility Script",
      DocumentID |-> <<"uuid:", ids[1]>>, InstanceID |-> <<"uuid:", ids[2]>>,
      part |-> 1 ]

\* instance_id = str(uuid.uuid4()) and the xmp_metadata f-string
BuildXmp ==
    /\ pc = "ax_xmp"
    /\ LET ids == XmpIds(uuids)
       IN  /\ ax' = [ ax EXCEPT
                        !.instance_id = ids[2],
                        !.xmp_metadata = <<XmpPacket(ax.meta, ids)>> ]
           /\ uuids' = uuids + ids[3]
    /\ pc' = "ax_stream"
    /\ UNCHANGED <<env, walk, idx, drv, cc, exc, fs, dirs, handles, log, caller,
                   reruns>>

\* metadata_stream = pdf.make_stream(...), its Type and Subtype
MakeStream ==
    /\ pc = "ax_stream"
    /\ ax' = [ ax EXCEPT
                 !.metadata_stream =
                     <<[Type |-> "/Metadata", Subtype |-> "/XML",
                        data |-> ax.xmp_metadata[1]]>> ]
    /\ pc' = "ax_attach"
    /\ UNCHANGED <<env, walk, idx, drv, cc, exc, fs, dirs, handles, log, uuids,
                   caller, reruns>>

\* pdf.trailer["/Root"]["/Metadata"] = metadata_stream, and the INFO line
AttachMetadata ==
    /\ pc = "ax_attach"
    /\ ax' = [ax EXCEPT !.pdf.root = DictSet(@, "/Metadata", ax.metadata_stream[1])]
    /\ Printed([line |-> "xmp_info", file |-> idx])
    /\ pc' = "ax_save"
    /\ UNCHANGED <<env, walk, idx, drv, cc, exc, fs, dirs, handles, uuids, caller,
                   reruns>>

\* pdf.save(linearize=True): the input file is replaced by the edited document
PikeSave ==
    /\ pc = "ax_save"
    /\ fs' = WriteFile(fs, ax.pdf_path, ax.pdf)
    /\ pc' = "ax_close"
    /\ UNCHANGED <<env, walk, idx, drv, cc, ax, exc, dirs, handles, log, uuids,
                   caller, reruns>>

\* where add_xmp_metadata_and_markinfo goes back to
ReturnSite == IF caller = "process_all_pdfs" THEN "success" ELSE "done"

\* pdf.close() and the return
PikeClose ==
    /\ pc = "ax_close"
    /\ handles' = handles \ {PdfHandle}
    /\ ax' = NoInject
    /\ pc' = ReturnSite
    /\ UNCHANGED <<env, walk, idx, drv, cc, exc, fs, dirs, log, uuids, caller,
                   reruns>>

\* the statements of the try block whose library call may raise: open, the
\* edit of the root, make_stream, save
InjectRaisePoints == {"ax_open", "ax_markinfo", "ax_stream", "ax_save"}

\* a pikepdf call raises: the rest of the try block, pdf.close() included, is
\* skipped
InjectRaises ==
    /\ pc \in InjectRaisePoints
    /\ exc' = [at |-> pc]
    /\ pc' = "ax_except"
    /\ UNCHANGED <<env, walk, idx, drv, cc, ax, fs, dirs, handles, log, uuids,
                   caller, reruns>>

\* the handler prints the error and raises it again
InjectExceptReraising ==
    /\ pc = "ax_except"
    /\ Printed([line |-> "xmp_error", file |-> idx, reason |-> exc.at])
    /\ ax' = NoInject
    /\ pc' = "except"
    /\ UNCHANGED <<env, walk, idx, drv, cc, exc, fs, dirs, handles, uuids, caller,
                   reruns>>

\* except Exception as e: print("ERROR: Failed to add XMP metadata ..."), and
\* the function returns normally
InjectExcept ==
    /\ pc = "ax_except"
    /\ Printed([line |-> "xmp_error", file |-> idx, reason |-> exc.at])
    /\ ax' = NoInject
    /\ pc' = ReturnSite
    /\ UNCHANGED <<env, walk, idx, drv, cc, exc, fs, dirs, handles, uuids, caller,
                   reruns>>

\* after the batch: add_xmp_metadata_and_markinfo is run once more on a file
\* it has already processed
RunInjectorAgain ==
    /\ pc = "done"
    /\ reruns < MaxReruns
    /\ \E path \in DOMAIN fs :
          /\ "/MarkInfo" \in DictKeys(fs[path].root)
          /\ ax' = [NoInject EXCEPT !.pdf_path = path, !.meta = fs[path].info]
    /\ reruns' = reruns + 1
    /\ caller' = "again"
    /\ pc' = "ax_open"
    /\ UNCHANGED <<env, walk, idx, drv, cc, exc, fs, dirs, handles, log, uuids>>

-----------------------------------------------------------------------------
(* The specifications *)

Next ==
    \/ WalkNext \/ WalkSkip \/ WalkEnd \/ MakeDirs \/ MakeDirsRaises
    \/ PrintSuccess \/ HandleException
    \/ OpenSource \/ NewOutputDoc \/ SetMetadata \/ SetLanguage
    \/ SetViewerPreferences \/ ViewerPreferencesMissing
    \/ NextPage \/ PagesDone \/ GetPixmap \/ Ocr \/ CreateOutputPage
    \/ Compress \/ CompressRaises \/ InsertImage \/ InsertText
    \/ SaveOutput \/ CloseOutput \/ CloseSource \/ ReturnMetadata \/ CreateRaises
    \/ PikeOpen \/ SetMarkInfo \/ BuildXmp \/ MakeStream \/ AttachMetadata
    \/ PikeSave \/ PikeClose \/ InjectRaises \/ InjectExcept

\* one run of the script
Spec == Init /\ [][Next]_vars

\* one run of the script over at most two files, after which the injector is
\* run again on its own output, up to MaxReruns times
InitAgain == Init /\ Len(walk) <= 2

SpecAgain == InitAgain /\ [][Next \/ RunInjectorAgain]_vars


-----------------------------------------------------------------------------
(* Definitions used to state the properties *)

\* the text has a character that is not whitespace
HasVisibleChar(text) == \E i \in 1..Len(text) : ~IsSpace(text[i])

\* the positions of the tokens that qualify for insertion
Qualifying(data) ==
    { i \in 1..Len(data) :
        HasVisibleChar(data[i].text) /\ data[i].conf > ConfidenceThreshold }

\* the text layer of the page in work is complete
TextLayerDone == pc = "cc_next_page" /\ cc.page_num >= 0

\* the output page made from the source page in work
CurrentOutputPage == cc.output_doc.pages[cc.page_num + 1]

\* the output path of the i-th file of the walk
OutputPathAt(i) == OutputPathOf(walk[i].root, walk[i].filename)

\* the file has been through add_xmp_metadata_and_markinfo
HasXmp(file) == "/Metadata" \in DictKeys(file.root)

XmpOf(file) == DictGet(file.root, "/Metadata").data

RasterOrOcr == {"cc_get_pixmap", "cc_ocr"}

-----------------------------------------------------------------------------
(* C1: when the text layer of a page is complete, the number of text        *)
(* insertions on the output page equals the number of OCR tokens of that    *)
(* page whose text has a non-whitespace character and whose confidence is   *)
(* above 50, and every inserted word is the text of such a token: a token   *)
(* at confidence 50 or below, or of whitespace only, is never inserted.     *)
C1_ConfidenceFilter ==
    TextLayerDone =>
        /\ Len(CurrentOutputPage.texts) = Cardinality(Qualifying(cc.ocr_data))
        /\ \A j \in 1..Len(CurrentOutputPage.texts) :
              \E i \in Qualifying(cc.ocr_data) :
                  CurrentOutputPage.texts[j].text = cc.ocr_data[i].text

\* a page whose OCR result holds a word at confidence exactly 50 and the same
\* word at 51, with one insertion made
C1_Witness ==
    /\ TextLayerDone
    /\ \E i, j \in 1..Len(cc.ocr_data) :
          /\ cc.ocr_data[i].conf = ConfidenceThreshold
          /\ HasVisibleChar(cc.ocr_data[i].text)
          /\ cc.ocr_data[j].conf = ConfidenceThreshold + 1
          /\ HasVisibleChar(cc.ocr_data[j].text)
    /\ Len(CurrentOutputPage.texts) = 1

(* C2: once create_ocr_compressed_pdf has written its output document, the  *)
(* written document has as many pages as the source document.               *)
C2_PageCountPreserved ==
    pc \in {"cc_close_output", "cc_close_source", "cc_return"} =>
        /\ cc.output_path \in DOMAIN fs
        /\ Len(fs[cc.output_path].pages) = Len(cc.source_doc)

\* a written document of two pages, one of them without any text insertion
C2_Witness ==
    /\ pc = "cc_close_output"
    /\ Len(cc.source_doc) = 2
    /\ Len(fs[cc.output_path].pages) = 2
    /\ \E i \in 1..2 : fs[cc.output_path].pages[i].texts = <<>>

(* C3: no exception raised while one discovered PDF is handled, from the    *)
(* creation of its output directory to the metadata injection, leaves       *)
(* process_all_pdfs: the run is never aborted.                              *)
C3_NoExceptionEscapes == pc # "crashed"

(* C4: when rasterization or OCR fails on a page of a file, no output file  *)
(* exists for that file, the failure is caught and reported by the handler  *)
(* of process_all_pdfs, and the driver has gone on to the next file.        *)
C4_NoPartialOutput ==
    /\ (pc = "except" /\ exc.at \in RasterOrOcr) => drv.output_path \notin DOMAIN fs
    /\ \A k \in 1..Len(log) :
          (log[k].line = "error" /\ log[k].reason \in RasterOrOcr) =>
              /\ OutputPathAt(log[k].file) \notin DOMAIN fs
              /\ idx > log[k].file

\* rasterization or OCR failed on page 2 of 3, and a later file was started
C4_Witness ==
    \E k \in 2..Len(log) :
        /\ log[k].line = "error"
        /\ log[k].reason \in RasterOrOcr
        /\ log[k - 1].line = "page" /\ log[k - 1].n = 2 /\ log[k - 1].of = 3
        /\ \E j \in (k + 1)..Len(log) : log[j].line = "start"

(* C5: every document handle opened is closed on every exit path: when the  *)
(* handling of a file is over, and when the run is over, none is open.      *)
C5_HandlesReleased == pc \in {"walk", "done"} => handles = {}

(* C6: a failure inside add_xmp_metadata_and_markinfo is printed with its   *)
(* cause, never reaches the handler of process_all_pdfs, and leaves the     *)
(* file written by create_ocr_compressed_pdf in place, as it was written;   *)
(* the driver goes on: the next line printed for the file is its success    *)
(* line.                                                                    *)
C6_InjectFailureContained ==
    /\ pc = "except" => exc.at \notin InjectRaisePoints
    /\ pc = "ax_except" =>
          /\ exc.at \in InjectRaisePoints
          /\ ax.pdf_path \in DOMAIN fs
          /\ ~HasXmp(fs[ax.pdf_path])
    /\ \A k \in 1..Len(log) :
          /\ log[k].line = "error" => log[k].reason \notin InjectRaisePoints
          /\ log[k].line = "xmp_error" =>
                /\ log[k].reason \in InjectRaisePoints
                /\ OutputPathAt(log[k].file) \in DOMAIN fs
                /\ ~HasXmp(fs[OutputPathAt(log[k].file)])
                /\ fs[OutputPathAt(log[k].file)].pages # <<>>
                      => fs[OutputPathAt(log[k].file)].pages[1].images # <<>>
                /\ k < Len(log) =>
                      log[k + 1] = [line |-> "success", file |-> log[k].file]

\* the re-save failed for one file, and the next file was started
C6_Witness ==
    \E k \in 1..Len(log) :
        /\ log[k].line = "xmp_error"
        /\ log[k].reason = "ax_save"
        /\ \E j \in (k + 1)..Len(log) :
              log[j].line = "start" /\ log[j].file > log[k].file

(* C7, as claimed: the packet of every injected file carries two            *)
(* separately generated identifiers, so its DocumentID and InstanceID       *)
(* differ.                                                                  *)
C7_TwoSeparateUuids ==
    \A p \in DOMAIN fs :
        HasXmp(fs[p]) => XmpOf(fs[p]).DocumentID # XmpOf(fs[p]).InstanceID

(* C7, amended: each run of the injector draws one fresh UUID, which is     *)
(* written both as the DocumentID and as the InstanceID of the packet; it   *)
(* is the value drawn last and differs from the identifier of every file    *)
(* injected before.                                                         *)
C7_OneFreshUuid ==
    /\ pc \in {"ax_stream", "ax_attach", "ax_save"} =>
          /\ ax.xmp_metadata[1].DocumentID = <<"uuid:", ax.instance_id>>
          /\ ax.xmp_metadata[1].InstanceID = <<"uuid:", ax.instance_id>>
          /\ ax.instance_id = uuids
          /\ \A p \in DOMAIN fs :
                HasXmp(fs[p]) =>
                    XmpOf(fs[p]).DocumentID # ax.xmp_metadata[1].DocumentID
    /\ \A p \in DOMAIN fs :
          HasXmp(fs[p]) =>
              /\ XmpOf(fs[p]).DocumentID = XmpOf(fs[p]).InstanceID
              /\ XmpOf(fs[p]).DocumentID[2] \in 1..uuids

\* the packet of a second file is built while an injected file exists
C7_Witness ==
    /\ pc = "ax_save"
    /\ uuids = 2
    /\ \E p \in DOMAIN fs : HasXmp(fs[p]) /\ p # ax.pdf_path

(* C8: however often add_xmp_metadata_and_markinfo is run on its own        *)
(* output, the file it needs is there to open, and the root of the saved    *)
(* file has exactly one MarkInfo entry, with Marked true, exactly one       *)
(* Metadata entry, which refers to an XML metadata stream holding a         *)
(* packet, no key twice, and the same keys as after the first run: those    *)
(* of the assembler's catalog plus MarkInfo and Metadata.                   *)
C8_RerunKeepsRoot ==
    /\ pc = "ax_open" => ax.pdf_path \in DOMAIN fs
    /\ \A p \in DOMAIN fs :
          "/MarkInfo" \in DictKeys(fs[p].root) =>
              /\ DictCount(fs[p].root, "/MarkInfo") = 1
              /\ DictGet(fs[p].root, "/MarkInfo") = [Marked |-> TRUE]
              /\ DictCount(fs[p].root, "/Metadata") = 1
              /\ DictGet(fs[p].root, "/Metadata").Type = "/Metadata"
              /\ DictGet(fs[p].root, "/Metadata").Subtype = "/XML"
              /\ XmpOf(fs[p]).part = 1
              /\ Len(fs[p].root) = Cardinality(DictKeys(fs[p].root))
              /\ DictKeys(fs[p].root) =
                    {"/Type", "/Pages", "/Lang", "/MarkInfo", "/Metadata"}
                    \cup (IF env.hasViewerPrefs THEN {"/ViewerPreferences"} ELSE {})

\* the injector has run three times on the file, each time to the end
C8_Witness ==
    /\ pc = "done"
    /\ reruns = 2
    /\ uuids = 3
    /\ Cardinality({k \in 1..Len(log) : log[k].line = "xmp_info"}) = 3
    /\ Len(log) >= 1 /\ log[Len(log)].line = "xmp_info"
    /\ \E p \in DOMAIN fs : XmpOf(fs[p]).DocumentID = <<"uuid:", 3>>

(* C9: an accepted OCR token whose box covers the whole raster,             *)
(* (0, 0, pix.width, pix.height), is inserted at the rectangle of the       *)
(* source page, (0, 0, width, height) in points, whatever the raster size   *)
(* the renderer produced.                                                   *)
C9_FullRasterMapsToPage ==
    TextLayerDone =>
        \A i \in Qualifying(cc.ocr_data) :
            ( /\ cc.ocr_data[i].left = 0 /\ cc.ocr_data[i].top = 0
              /\ cc.ocr_data[i].width = cc.pix.width
              /\ cc.ocr_data[i].height = cc.pix.height )
            => CurrentOutputPage.texts[
                   Cardinality({k \in Qualifying(cc.ocr_data) : k <= i})].rect
               = <<<<0, 1>>, <<0, 1>>, <<SourcePage.width, 1>>, <<SourcePage.height, 1>>>>

\* a page of 100 x 50 points rendered 209 x 105 pixels, with a full-raster
\* token inserted
C9_Witness ==
    /\ TextLayerDone
    /\ SourcePage.width = 100 /\ SourcePage.height = 50
    /\ cc.pix.width = 209 /\ cc.pix.height = 105
    /\ \E i \in Qualifying(cc.ocr_data) :
          cc.ocr_data[i].width = cc.pix.width /\ cc.ocr_data[i].height = cc.pix.height
    /\ Len(CurrentOutputPage.texts) >= 1

(* C10: the i-th page of the output document has the width and height of    *)
(* the i-th source page, and its background image, once inserted, is the    *)
(* rendering of the i-th source page and covers that page's rectangle; the  *)
(* document written is the document so built.                               *)
C10_PageOrderAndSize ==
    /\ Len(cc.output_doc.pages) <= Len(cc.source_doc)
    /\ \A i \in 1..Len(cc.output_doc.pages) :
          /\ cc.output_doc.pages[i].width = cc.source_doc[i].width
          /\ cc.output_doc.pages[i].height = cc.source_doc[i].height
          /\ \A m \in 1..Len(cc.output_doc.pages[i].images) :
                /\ cc.output_doc.pages[i].images[m].stream.of = i - 1
                /\ cc.output_doc.pages[i].images[m].rect = PageRect(cc.source_doc[i])
          /\ (i < Len(cc.output_doc.pages) \/ pc \in {"cc_insert_text", "cc_next_page", "cc_save"})
                => Len(cc.output_doc.pages[i].images) = 1
    /\ pc = "cc_close_output" => fs[cc.output_path].pages = cc.output_doc.pages

\* a document of two pages of different sizes has been written
C10_Witness ==
    /\ pc = "cc_close_output"
    /\ Len(cc.source_doc) = 2
    /\ cc.source_doc[1] # cc.source_doc[2]
    /\ Len(fs[cc.output_path].pages) = 2
    /\ fs[cc.output_path].pages[2].images # <<>>


-----------------------------------------------------------------------------
(* Definitions used to state the properties of the batch as a whole *)

\* the i-th entry of the walk is a file process_all_pdfs takes up
Discovered(i) == i \in 1..Len(walk) /\ IsPdfName(walk[i].filename)

\* the positions in the output of the status lines of the i-th file: the
\* success line and the error line of process_all_pdfs
StatusLines(i) ==
    { k \in 1..Len(log) : log[k].file = i /\ log[k].line \in {"success", "error"} }

\* process_all_pdfs is over: it returned, or an exception left it
RunOver == pc \in {"done", "crashed"}

(* C11: no file has more than one status line of process_all_pdfs, and      *)
(* when the run is over every discovered PDF has exactly one, its success   *)
(* line or its error line (which carries the reason).                       *)
C11_OneStatusLinePerFile ==
    /\ \A i \in 1..Len(walk) : Cardinality(StatusLines(i)) <= 1
    /\ RunOver => \A i \in 1..Len(walk) :
                      Discovered(i) => Cardinality(StatusLines(i)) = 1


\* the success lines printed so far
SuccessLines == { k \in 1..Len(log) : log[k].line = "success" }

(* C12: two distinct discovered PDFs never have the same output path, also  *)
(* when they have the same name in different directories: the files written *)
(* are as many as the files reported successful.  The directory of the      *)
(* output path relative to OUTPUT_FOLDER is the directory of the input file *)
(* relative to INPUT_FOLDER, and the output file has the input file's name. *)
C12_OutputPathsInjective ==
    /\ \A i, j \in 1..Len(walk) :
          (Discovered(i) /\ Discovered(j) /\ i # j) => OutputPathAt(i) # OutputPathAt(j)
    /\ pc \notin {"walk", "done"} =>
          Relpath(drv.output_dir, <<OUTPUT_FOLDER>>) = Relpath(Entry.root, InputRoot)
    /\ pc \notin {"walk", "done", "makedirs", "crashed"} =>
          /\ drv.output_path.dir = drv.output_dir
          /\ drv.output_path.name = Entry.filename
    /\ pc = "walk" => Cardinality(DOMAIN fs) = Cardinality(SuccessLines)
    /\ \A k \in SuccessLines :
          /\ OutputPathAt(log[k].file) \in DOMAIN fs
          /\ fs[OutputPathAt(log[k].file)].info.title
                = DocTitle(PathJoin(walk[log[k].file].root, walk[log[k].file].filename))

\* two files of the same name, one in INPUT_FOLDER and one in a subdirectory,
\* were both written
C12_Witness ==
    /\ pc = "done"
    /\ Len(walk) = 2
    /\ walk[1].filename = walk[2].filename
    /\ walk[1].root # walk[2].root
    /\ Cardinality(SuccessLines) = 2
    /\ Cardinality(DOMAIN fs) = 2


\* the Pillow modes that carry an alpha channel (RGBA, LA, PA, RGBa, La) or a
\* palette (P, PA)
HasAlphaOrPalette(mode) == mode \in {"RGBA", "LA", "PA", "RGBa", "La", "P"}

(* C13: whenever the compression step is about to run on a raster whose     *)
(* mode carries an alpha channel or a palette, whichever such mode it is,   *)
(* the mode it hands to the JPEG encoder is one the encoder writes and has  *)
(* neither alpha nor palette; the bytes inserted as background were encoded *)
(* from such a mode.                                                        *)
C13_AlphaOrPaletteEncodes ==
    /\ (pc = "cc_compress" /\ HasAlphaOrPalette(cc.pil_image)) =>
          /\ JpegWritable(ConvertMode(cc.pil_image))
          /\ ~HasAlphaOrPalette(ConvertMode(cc.pil_image))
    /\ pc = "cc_insert_image" => ~HasAlphaOrPalette(cc.compressed_image_bytes.mode)


\* the identifiers of the packet of a file: its DocumentID and InstanceID
IdsOf(packet) == {packet.DocumentID, packet.InstanceID}

\* the injector holds a packet it has built and not yet saved
PacketBuilt == pc \in {"ax_stream", "ax_attach", "ax_save"}

(* C14: no two files carry the same identifier in their XMP packets, and    *)
(* the identifier of a packet the injector has just built differs from the  *)
(* identifier of every packet on disk, the one of the file it is working on *)
(* included: injecting a file again gives it a new identifier.              *)
C14_FreshUuidPerDocument ==
    /\ \A p, q \in DOMAIN fs :
          (p # q /\ HasXmp(fs[p]) /\ HasXmp(fs[q])) =>
              IdsOf(XmpOf(fs[p])) \cap IdsOf(XmpOf(fs[q])) = {}
    /\ PacketBuilt =>
          \A p \in DOMAIN fs :
              HasXmp(fs[p]) => IdsOf(XmpOf(fs[p])) \cap IdsOf(ax.xmp_metadata[1]) = {}

\* the injector, run again on a file that has a packet, has built the new
\* packet, while a second file with a packet of its own exists
C14_Witness ==
    /\ pc = "ax_save"
    /\ caller = "again"
    /\ HasXmp(fs[ax.pdf_path])
    /\ \E q \in DOMAIN fs : q # ax.pdf_path /\ HasXmp(fs[q])
    /\ uuids = 3


\* the statements of create_ocr_compressed_pdf after the viewer preference
AfterViewerPrefs ==
    { "cc_next_page", "cc_get_pixmap", "cc_ocr", "cc_new_page", "cc_compress",
      "cc_insert_image", "cc_insert_text", "cc_save", "cc_close_output",
      "cc_close_source", "cc_return" }

\* the metadata create_ocr_compressed_pdf is to give the file made from
\* input_path, stated from the file name and the fixed values
ExpectedMetadata(input_path) ==
    [ title |-> DocTitle(input_path), author |-> "University of Arizona Libraries",
      subject |-> "Lymphology Journal Article",
      keywords |-> <<"OCR", ",", " accessibility", ",", " PDF/UA", ",", " Lymphology">> ]

(* C15: with a PyMuPDF that lacks set_viewer_preferences the file is not    *)
(* abandoned on that account: the informational line is printed, the pages  *)
(* are processed, and the document written has the metadata, the language   *)
(* en-US and one page with one background per source page, as with the      *)
(* capability; only the ViewerPreferences entry is missing from its root.   *)
C15_ViewerPrefsAbsenceNonFatal ==
    ~env.hasViewerPrefs =>
        /\ exc.at # "cc_viewer_prefs"
        /\ pc \in AfterViewerPrefs =>
              \E k \in 1..Len(log) : log[k] = [line |-> "viewer_prefs_info", file |-> idx]
        /\ pc = "cc_close_output" =>
              LET file == fs[cc.output_path]
              IN  /\ file.info = ExpectedMetadata(cc.input_path)
                  /\ DictGet(file.root, "/Lang") = "en-US"
                  /\ "/ViewerPreferences" \notin DictKeys(file.root)
                  /\ Len(file.pages) = Len(cc.source_doc)
                  /\ \A i \in 1..Len(file.pages) :
                        /\ file.pages[i].width = cc.source_doc[i].width
                        /\ file.pages[i].height = cc.source_doc[i].height
                        /\ Len(file.pages[i].images) = 1

\* without the capability, a document of two pages has been written
C15_Witness ==
    /\ ~env.hasViewerPrefs
    /\ pc = "cc_close_output"
    /\ Len(cc.source_doc) = 2
    /\ Len(fs[cc.output_path].pages) = 2
    /\ \E k \in 1..Len(log) : log[k].line = "viewer_prefs_info"


\* the statements of add_xmp_metadata_and_markinfo
InjectorPcs ==
    { "ax_open", "ax_markinfo", "ax_xmp", "ax_stream", "ax_attach", "ax_save",
      "ax_close", "ax_except" }

\* the lines add_xmp_metadata_and_markinfo prints
InjectorLines == {"xmp_info", "xmp_error"}

(* C16: the lines printed for the files are never interleaved, and when a   *)
(* file is in work every discovered file before it has its status line:     *)
(* assembly and injection of a file are over before the next file starts.   *)
(* The two functions are never active together; the injector, called by     *)
(* process_all_pdfs, works on the output path of the file in work, which    *)
(* the assembler has written and returned from; no line of the injector is  *)
(* printed for a file whose assembly raised.                                *)
C16_OneFileAtATime ==
    /\ \A k \in 1..Len(log) : log[k].file <= idx
    /\ \A k \in 1..(Len(log) - 1) : log[k].file <= log[k + 1].file
    /\ \A i \in 1..(idx - 1) : Discovered(i) => Cardinality(StatusLines(i)) = 1
    /\ cc # NoFrame => ax = NoInject
    /\ pc \in InjectorPcs =>
          /\ cc = NoFrame
          /\ ax.pdf_path = drv.output_path
          /\ ax.pdf_path = OutputPathAt(idx)
          /\ ax.pdf_path \in DOMAIN fs
          /\ Len(fs[ax.pdf_path].pages) \in {Len(ps) : ps \in env.pageSeqs}
          /\ drv.meta = ExpectedMetadata(drv.input_path)
          /\ \A k \in 1..Len(log) : log[k].file = idx => log[k].line # "error"
    /\ \A k \in 1..Len(log) :
          log[k].line \in InjectorLines =>
              /\ OutputPathAt(log[k].file) \in DOMAIN fs
              /\ \A j \in 1..Len(log) :
                    log[j].file = log[k].file => log[j].line # "error"

\* the assembly of the first file raised, and the injector is at work on the
\* second file
C16_Witness ==
    /\ pc = "ax_save"
    /\ idx = 2
    /\ \E k \in 1..Len(log) : log[k].line = "error" /\ log[k].file = 1
    /\ \E k \in 1..Len(log) : log[k].line = "xmp_info" /\ log[k].file = 2


\* the output page for the source page in work exists
OutputPageCreated == Len(cc.output_doc.pages) = cc.page_num + 1

\* the output page for the source page in work has its background image
BackgroundInserted ==
    OutputPageCreated /\ Len(cc.output_doc.pages[cc.page_num + 1].images) = 1

(* C17, as claimed: OCR of a page runs only after the output page of that   *)
(* page has been created and given its compressed background.               *)
C17_OcrAfterBackground == pc = "cc_ocr" => BackgroundInserted

(* C17, amended: within the synthesis of one page the page is rasterized,   *)
(* then OCR is run on the raster, then the output page is created, then     *)
(* the raster is compressed and inserted as the background of that page,    *)
(* and then the text layer is inserted.  When OCR runs, the output page of  *)
(* the page in work does not exist yet and the pages before it are          *)
(* complete; the background is encoded from the raster of the page in work  *)
(* and is in place before any text is inserted.                             *)
C17_OcrBeforeOutputPage ==
    /\ pc \in {"cc_get_pixmap", "cc_ocr", "cc_new_page"} =>
          /\ Len(cc.output_doc.pages) = cc.page_num
          /\ \A i \in 1..Len(cc.output_doc.pages) :
                Len(cc.output_doc.pages[i].images) = 1
    /\ pc \in {"cc_ocr", "cc_new_page", "cc_compress"} => cc.pix.page = cc.page_num
    /\ pc = "cc_compress" =>
          /\ OutputPageCreated
          /\ cc.output_doc.pages[cc.page_num + 1].images = <<>>
          /\ cc.output_doc.pages[cc.page_num + 1].texts = <<>>
    /\ pc = "cc_insert_image" =>
          /\ OutputPageCreated
          /\ cc.output_doc.pages[cc.page_num + 1].images = <<>>
          /\ cc.compressed_image_bytes.of = cc.page_num
    /\ pc = "cc_insert_text" =>
          /\ BackgroundInserted
          /\ cc.output_doc.pages[cc.page_num + 1].texts = <<>>
    /\ (pc = "cc_next_page" /\ cc.page_num >= 0) => BackgroundInserted

\* OCR is about to run on the second page, the first page being complete
C17_Witness ==
    /\ pc = "cc_ocr"
    /\ cc.page_num = 1
    /\ Len(cc.output_doc.pages) = 1
    /\ Len(cc.output_doc.pages[1].images) = 1


\* the statements of the page loop of create_ocr_compressed_pdf
PageLoopPcs ==
    { "cc_next_page", "cc_get_pixmap", "cc_ocr", "cc_new_page", "cc_compress",
      "cc_insert_image", "cc_insert_text" }

(* C18: when create_ocr_compressed_pdf is in its page loop, and whenever    *)
(* its output document has a page, the output document has its title,       *)
(* author, subject and keywords and the language en-US; no source page has  *)
(* been taken up before both are set.                                       *)
C18_MetadataBeforePages ==
    /\ (pc \in PageLoopPcs \/ Len(cc.output_doc.pages) >= 1) =>
          /\ cc.output_doc.metadata = ExpectedMetadata(cc.input_path)
          /\ cc.output_doc.language = "en-US"
    /\ pc \in {"cc_new_output", "cc_set_metadata", "cc_set_language", "cc_viewer_prefs"} =>
          /\ cc.page_num = -1
          /\ cc.output_doc.pages = <<>>
          /\ \A k \in 1..Len(log) : log[k].file = idx => log[k].line # "page"

\* the first output page has just been created, metadata and language set
C18_Witness ==
    /\ pc = "cc_compress"
    /\ Len(cc.output_doc.pages) = 1
    /\ cc.output_doc.language = "en-US"
    /\ cc.output_doc.metadata.title = <<"A", " ", "B">>


\* process_all_pdfs has taken up the i-th file: its first line is printed
Attempted(i) == \E k \in 1..Len(log) : log[k] = [line |-> "start", file |-> i]

(* C19: what happens to a discovered PDF depends on that file alone.  Its   *)
(* processing starts from fresh frames, a file reported successful has the  *)
(* metadata derived from its own name, and when the run is over every       *)
(* discovered PDF, whatever came of the files before it, has been attempted *)
(* and has its outcome; the one exception granted here is a file whose own  *)
(* output directory could not be created.                                   *)
C19_OutcomeIndependentOfOthers ==
    /\ pc = "cc_open_source" =>
          /\ cc = [ NoFrame EXCEPT !.input_path = drv.input_path,
                                   !.output_path = drv.output_path ]
          /\ ax = NoInject
    /\ \A k \in SuccessLines :
          fs[OutputPathAt(log[k].file)].info =
              ExpectedMetadata(PathJoin(walk[log[k].file].root, walk[log[k].file].filename))
    /\ RunOver =>
          \A i \in 1..Len(walk) :
              (Discovered(i) /\ ~(pc = "crashed" /\ i = idx)) =>
                  /\ Attempted(i)
                  /\ Cardinality(StatusLines(i)) = 1


\* the statements at which create_ocr_compressed_pdf can end by raising
AssemblyFailures == CreateRaisePoints \cup {"cc_compress"}

\* the file has an entry add_xmp_metadata_and_markinfo puts into the root
IsTagged(file) == "/MarkInfo" \in DictKeys(file.root) \/ HasXmp(file)

(* C20: the success line of a file is printed exactly for the files whose   *)
(* call of create_ocr_compressed_pdf returned: such a file has its output   *)
(* written and no error line, and the error line of a file always names a   *)
(* failure of create_ocr_compressed_pdf, leaves no output and comes with no *)
(* success line.  A failure inside add_xmp_metadata_and_markinfo leads to   *)
(* the success line, never to the error line.                               *)
C20_SuccessIffAssemblyReturned ==
    /\ pc = "success" =>
          /\ drv.meta = ExpectedMetadata(drv.input_path)
          /\ drv.output_path \in DOMAIN fs
    /\ pc = "except" => (exc.at \in AssemblyFailures /\ drv.meta = NoMetadata)
    /\ \A k \in 1..Len(log) :
          /\ log[k].line = "success" =>
                /\ OutputPathAt(log[k].file) \in DOMAIN fs
                /\ \A j \in 1..Len(log) :
                      log[j].file = log[k].file => log[j].line # "error"
          /\ log[k].line = "error" =>
                /\ log[k].reason \in AssemblyFailures
                /\ OutputPathAt(log[k].file) \notin DOMAIN fs
                /\ \A j \in 1..Len(log) :
                      log[j].file = log[k].file => log[j].line \notin InjectorLines
          /\ (log[k].line = "xmp_error" /\ log[k].file < idx) =>
                \E j \in (k + 1)..Len(log) :
                    log[j] = [line |-> "success", file |-> log[k].file]

\* a file is reported successful although the injector failed on it: the
\* written file has neither MarkInfo nor the metadata stream
C20_Witness ==
    /\ pc = "done"
    /\ \E k \in 1..(Len(log) - 1) :
          /\ log[k].line = "xmp_error"
          /\ log[k].reason = "ax_markinfo"
          /\ log[k + 1] = [line |-> "success", file |-> log[k].file]
          /\ ~IsTagged(fs[OutputPathAt(log[k].file)])
          /\ Len(fs[OutputPathAt(log[k].file)].pages) = 1


\* the packet carries the values of the document information dictionary:
\* dc:title, dc:creator, dc:description and pdf:Keywords are the title,
\* author, subject and keywords, and the items of the dc:subject bag, joined
\* at their boundaries by commas, are the keywords
PacketAgreesWith(packet, info) ==
    /\ packet.title = info.title
    /\ packet.creator = info.author
    /\ packet.description = info.subject
    /\ packet.keywords = info.keywords
    /\ StrReplace(packet.subject, "</rdf:li><rdf:li>", ",") = info.keywords

(* C21: in every file that has been through both functions, the title,     *)
(* author, subject and keywords of the XMP packet are the values of the     *)
(* file's document information dictionary, as create_ocr_compressed_pdf     *)
(* wrote them; a packet the injector has built and not yet saved agrees     *)
(* with the dictionary of the file it was built for.                        *)
C21_XmpAgreesWithInfo ==
    /\ \A p \in DOMAIN fs :
          HasXmp(fs[p]) => PacketAgreesWith(XmpOf(fs[p]), fs[p].info)
    /\ PacketBuilt =>
          /\ PacketAgreesWith(ax.xmp_metadata[1], ax.pdf.info)
          /\ ax.pdf.info = fs[ax.pdf_path].info
          /\ ax.pdf.info.title # <<>>

\* two files with different titles have both been through both functions
C21_Witness ==
    /\ pc = "done"
    /\ \E p, q \in DOMAIN fs :
          /\ HasXmp(fs[p]) /\ HasXmp(fs[q])
          /\ XmpOf(fs[p]).title = <<"A", " ", "B">>
          /\ XmpOf(fs[q]).title = <<"B">>
          /\ fs[q].info.title = <<"B">>


-----------------------------------------------------------------------------
(* Termination *)

\* every statement that can run eventually runs: each external call returns
\* or raises, and the interpreter goes on with the next statement
Fairness == WF_vars(Next)

\* one run of the script in which no call hangs
LiveSpec == Init /\ [][Next]_vars /\ Fairness

\* the lines that open the processing of the i-th file
StartLines(i) == { k \in 1..Len(log) : log[k] = [line |-> "start", file |-> i] }

(* C22, termination: if no external call hangs, the run over the finite     *)
(* walk comes to its end: process_all_pdfs returns, or an exception leaves  *)
(* it.                                                                      *)
C22_Terminates == <>RunOver

(* C22, as claimed: when the run is over, every discovered PDF has been     *)
(* attempted exactly once, none skipped and none processed twice; at no     *)
(* time has a file been attempted more than once.  The file at which an     *)
(* exception left process_all_pdfs counts as attempted.                     *)
C22_EachAttemptedOnce ==
    /\ \A i \in 1..Len(walk) : Cardinality(StartLines(i)) <= 1
    /\ RunOver =>
          \A i \in 1..Len(walk) :
              (Discovered(i) /\ ~(pc = "crashed" /\ i = idx)) =>
                  Cardinality(StartLines(i)) = 1

====
